---- MODULE Spec2Model ----
(***************************************************************************)
(* A model of logstash_formatter.LogstashFormatter: the constructor and    *)
(* format(record), step by step, on a formatter shared by several callers. *)
(*                                                                         *)
(* Python values are tagged tuples, the tag first:                         *)
(*   <<"str", s>>            a str                                         *)
(*   <<"text", tokens>>      a str seen as a template (see FormatMsg)      *)
(*   <<"num", s>>            an int or float                               *)
(*   <<"none">>              None                                          *)
(*   <<"obj", o>>            an object json cannot encode                  *)
(*   <<"time", t>>           a datetime/date/time                          *)
(*   <<"tuple", seq>>        a tuple        <<"list", seq>>  a list        *)
(*   <<"dict", d>>           a dict, d a function from keys to values      *)
(*   <<"exc", type, val, n>> an exc_info triple whose traceback has n      *)
(*                           frames (n = 0: traceback None)                *)
(*   <<"ref", a>>            a reference to the shared object heap[a]      *)
(* and the strs the code computes keep how they were computed:             *)
(*   <<"strof", o>> str(o), <<"iso", t>> t.isoformat(), <<"tbhead">>,      *)
(*   <<"tbframe", i>>, <<"tbexc", type, val>> the lines of a traceback.    *)
(* A dict key is a string; the int key 1 is written "int:1".               *)
(***************************************************************************)
EXTENDS Naturals, Sequences, FiniteSets, TLC

VARIABLES config, self, heap, pc, rec, fields, msg, loglevel, worker_guid,
          logr, ret, completed

vars == <<config, self, heap, pc, rec, fields, msg, loglevel, worker_guid,
          logr, ret, completed>>

\* Callers of format on the one formatter.
NumThreads == 2
\* Deepest traceback of a captured exception.
MaxFrames == 1
\* The count of completed calls saturates here.
MaxCalls == 1

ThreadNames == <<"t1", "t2", "t3", "t4">>
Threads == {ThreadNames[i] : i \in 1..NumThreads}
MainThread == "t1"

None == <<"none">>
Str(s) == <<"str", s>>
Num(s) == <<"num", s>>
Obj(o) == <<"obj", o>>
Time(t) == <<"time", t>>
Dict(d) == <<"dict", d>>
List(s) == <<"list", s>>
Tuple(s) == <<"tuple", s>>
Ref(a) == <<"ref", a>>
Text(toks) == <<"text", toks>>
ExcInfo(ty, val, n) == <<"exc", ty, val, n>>
EmptyDict == <<>>

\* ---------------------------------------------------------------- dict

\* d.update(e): e's entries win.
Update(d, e) == e @@ d

\* d.pop(k, default): d without k.
Pop(d, k) == [x \in DOMAIN d \ {k} |-> d[x]]

\* d.get(k, default)
Get(d, k, default) == IF k \in DOMAIN d THEN d[k] ELSE default

\* The object a value denotes: a reference is followed into the heap.
Deref(v, h) == IF v[1] = "ref" THEN h[v[2]] ELSE v

\* bool(v)
Truthy(v) ==
    CASE v[1] = "none" -> FALSE
      [] v[1] \in {"tuple", "list"} -> Len(v[2]) > 0
      [] v[1] = "dict" -> DOMAIN v[2] /= {}
      [] v[1] = "text" -> Len(v[2]) > 0
      [] v[1] = "str" -> v[2] /= ""
      [] OTHER -> TRUE

\* ---------------------------------------------------------------- json

\* _default_json_default(obj)
_default_json_default(v) ==
    IF v[1] = "time" THEN <<"iso", v[2]>> ELSE <<"strof", v[2]>>

\* The key json.dumps writes for a dict key: an int key becomes its digits.
JsonKey(k) == IF k = "int:1" THEN "1" ELSE k

StringTags == {"str", "text", "strof", "iso", "tbhead", "tbframe", "tbexc"}

\* json.dumps(v, default=_default_json_default), as the JSON value written.
\* The formatter is built with the default json_default and no json_cls. No
\* dict of the inputs has two keys that json writes alike.
RECURSIVE JsonOf(_, _)
JsonOf(v, h) ==
    CASE v[1] \in StringTags -> v
      [] v[1] = "num" -> v
      [] v[1] = "none" -> <<"null">>
      [] v[1] \in {"tuple", "list"} ->
            <<"list", [i \in 1..Len(v[2]) |-> JsonOf(v[2][i], h)]>>
      [] v[1] = "dict" ->
            <<"dict", [jk \in {JsonKey(k) : k \in DOMAIN v[2]} |->
                 JsonOf(v[2][CHOOSE k \in DOMAIN v[2] : JsonKey(k) = jk], h)]>>
      [] v[1] = "ref" -> JsonOf(h[v[2]], h)
      [] v[1] \in {"obj", "time"} -> _default_json_default(v)

\* ------------------------------------------------------------- message

\* record.getMessage(): str(msg), then msg % args when there are args; each
\* %s takes the next argument.
PctBefore(toks, i) == Cardinality({j \in 1..(i - 1) : toks[j][1] = "pct"})

GetMessage(r) ==
    LET toks == r["msg"][2]
        args == r["args"][2]
    IN  IF Len(args) = 0 THEN Text(toks)
        ELSE Text([i \in 1..Len(toks) |->
                    IF toks[i][1] = "pct"
                    THEN <<"sub", args[PctBefore(toks, i) + 1]>>
                    ELSE toks[i]])

\* The exception one replacement field of str.format(**kw) raises, "" if none.
\* Tokens: <<"lit", s>> text, <<"pct">> "%s", <<"sub", v>> text substituted
\* from v, <<"esc", b>> a doubled brace, <<"field", k>> "{k}", <<"pos", i>>
\* "{i}", <<"attr", k, a>> "{k.a}", <<"lbrace">> and <<"rbrace">> a single
\* brace.
TokenError(tok, kw) ==
    CASE tok[1] = "field" -> IF tok[2] \in DOMAIN kw THEN "" ELSE "KeyError"
      [] tok[1] = "pos" -> "IndexError"
      [] tok[1] = "attr" ->
            IF tok[2] \in DOMAIN kw THEN "AttributeError" ELSE "KeyError"
      [] tok[1] \in {"lbrace", "rbrace"} -> "ValueError"
      [] OTHER -> ""

TokenValue(tok, kw) ==
    CASE tok[1] = "field" -> <<"sub", kw[tok[2]]>>
      [] tok[1] = "esc" -> <<"lit", tok[2]>>
      [] OTHER -> tok

\* msg.format(**kw): the text is scanned left to right and the first field
\* that fails raises; <<"ok", text>> or <<"raise", exception>>.
FormatMsg(m, kw) ==
    LET toks == m[2]
        bad == {i \in 1..Len(toks) : TokenError(toks[i], kw) /= ""}
    IN  IF bad = {}
        THEN <<"ok", Text([i \in 1..Len(toks) |-> TokenValue(toks[i], kw)])>>
        ELSE <<"raise",
               TokenError(toks[CHOOSE i \in bad : \A j \in bad : i <= j], kw)>>

\* The exceptions the try of the interpolation pass catches.
CaughtByInterpolation == {"KeyError", "IndexError"}

\* ------------------------------------------------------------- format

\* The copy without the merge of a dict message.
ResolveNoUpdate(r) ==
    IF r["msg"][1] = "dict" THEN Pop(r, "msg") ELSE r

\* fields = record.__dict__.copy(); a dict message is merged into the copy
\* and the raw message dropped.
ResolveFields(r) ==
    IF r["msg"][1] = "dict" THEN Pop(Update(r, r["msg"][2]), "msg") ELSE r

\* msg: "" for a dict message, record.getMessage() otherwise.
ResolveMsg(r) ==
    IF r["msg"][1] = "dict" THEN Text(<<>>) ELSE GetMessage(r)

\* traceback.format_tb(tb): the frames alone.
FormatTb(e) == List([i \in 1..e[4] |-> <<"tbframe", i>>])

\* traceback.format_exception(type, value, tb): the header and the frames when
\* there is a traceback, then the exception's own line.
FormatException(e) ==
    List((IF e[4] > 0
          THEN <<(<<"tbhead">>)>> \o [i \in 1..e[4] |-> <<"tbframe", i>>]
          ELSE <<>>)
         \o <<(<<"tbexc", e[2], e[3]>>)>>)

\* if fields.get('exc_info'): fields['exception'] = format_exception(...)
\* The exception info of the inputs is None, an empty tuple or a triple.
ExcInfoStep(f) ==
    IF Truthy(Get(f, "exc_info", None))
    THEN Update(f, "exception" :> FormatException(f["exc_info"]))
    ELSE f

\* The list with lineno forgotten.
unwanted_tags_short ==
    <<"message", "exc_text", "exc_info", "msg", "filename", "funcName",
      "levelno", "module", "msecs", "pathname", "process", "processName",
      "relativeCreated", "thread", "threadName">>

\* unwanted_tags
unwanted_tags ==
    <<"message", "exc_text", "exc_info", "msg", "lineno", "filename",
      "funcName", "levelno", "module", "msecs", "pathname", "process",
      "processName", "relativeCreated", "thread", "threadName">>

\* loglevel and worker_guid are popped, then every unwanted tag.
StripFields(f) ==
    LET gone == {"levelname", "name"}
                \cup {unwanted_tags[i] : i \in 1..Len(unwanted_tags)}
    IN  [k \in DOMAIN f \ gone |-> f[k]]

\* The two lists of pairs in the other order: the defaults win.
BuildFieldsDefaultsWin(defaults, f, h) ==
    Update(f, Deref(Get(defaults, "@fields", Dict(EmptyDict)), h)[2])

\* The fields alone.
BuildFieldsNoDefaults(defaults, f, h) == f

\* _build_fields(defaults, fields): the pairs of defaults['@fields'], then the
\* pairs of fields, so that fields win.
_build_fields(defaults, f, h) ==
    Update(Deref(Get(defaults, "@fields", Dict(EmptyDict)), h)[2], f)

\* The dict literal of logr.update({...}).
Reserved(m, ts, s, level, guid, flds) ==
    ("@message" :> m) @@ ("@timestamp" :> <<"str", ts>>)
    @@ ("@source_host" :> s.source_host) @@ ("loglevel" :> level)
    @@ ("worker_guid" :> guid) @@ ("logging_type" :> Str("redis"))
    @@ ("@host" :> s.host) @@ ("@fields" :> Dict(flds))

\* No copy: the dict at src itself.
CopyAlias(t, src) == src

\* The address of the dict d.copy() returns, for the dict at src copied by
\* caller t: a new object, which the model names after the caller.
CopyAddr(t, src) == t

\* A new dict that takes nothing from d.
CopyEmpty(d) == EmptyDict

\* The content of the dict d.copy() returns: d's own pairs, the values shared.
CopyDict(d) == d

\* ---------------------------------------------------------- constructor

SharedAddrs == {"extra", "nested", "tags", "empty"}
Addrs == SharedAddrs \cup Threads
Raise == <<"raise">>

\* json.loads(fmt), {} without a fmt.
ParsedFmt(cfg) == IF cfg.fmt = None THEN EmptyDict ELSE cfg.fmt[2]

\* __init__: defaults, source_host and host.
Construct(cfg) ==
    LET f == ParsedFmt(cfg)
    IN  [defaults |-> IF "extra" \notin DOMAIN f THEN "empty" ELSE f["extra"][2],
         source_host |->
            IF "source_host" \in DOMAIN f THEN f["source_host"]
            ELSE IF cfg.gethostname = Raise THEN Str("")
            ELSE cfg.gethostname,
         host |->
            IF cfg.gethostname = Raise \/ cfg.gethostbyname = Raise
            THEN Str("") ELSE cfg.gethostbyname]

\* The objects json.loads built, and the {} of a formatter without extra.
InitHeap(cfg) ==
    [a \in Addrs |->
        IF a \in DOMAIN cfg.objs THEN cfg.objs[a]
        ELSE IF a = "empty" /\ "extra" \notin DOMAIN ParsedFmt(cfg)
        THEN Dict(EmptyDict)
        ELSE None]

\* The extra mapping of the configuration, and the @fields mapping in it.
ConfigExtra(cfg) == InitHeap(cfg)[Construct(cfg).defaults][2]

ConfigNested(cfg) ==
    Deref(Get(ConfigExtra(cfg), "@fields", Dict(EmptyDict)), InitHeap(cfg))[2]

\* -------------------------------------------------------------- inputs

\* Constructor arguments and what the name service answers: no fmt; an extra
\* with plain defaults and a source_host; an extra holding an @fields mapping,
\* keys of the output document and a denylisted name.
Configs ==
    { [fmt |-> None, objs |-> EmptyDict,
       gethostname |-> Str("web1"), gethostbyname |-> Str("10.0.0.1")],
      [fmt |-> Dict([extra |-> Ref("extra"), source_host |-> Str("override")]),
       objs |-> [extra |-> Dict([env |-> Str("prod"), tags |-> Ref("tags")]),
                 tags |-> List(<<Str("a"), Str("b")>>)],
       gethostname |-> Str("web1"), gethostbyname |-> Raise],
      [fmt |-> Dict([extra |-> Ref("extra")]),
       objs |-> [extra |-> Dict(("@fields" :> Ref("nested"))
                                @@ ("@message" :> Str("configured"))
                                @@ [env |-> Str("top"), team |-> Str("ops")]),
                 nested |-> Dict([env |-> Str("prod"), region |-> Str("eu"),
                                  lineno |-> Num("7"),
                                  exception |-> Str("configured"),
                                  tags |-> Ref("tags")]),
                 tags |-> List(<<Str("a")>>)],
       gethostname |-> Raise, gethostbyname |-> Raise] }

\* The attributes logging gives every record, besides msg, args and exc_info.
BaseAttrs ==
    [name |-> Str("app.worker"), levelname |-> Str("INFO"),
     levelno |-> Num("20"), pathname |-> Str("/srv/app.py"),
     filename |-> Str("app.py"), module |-> Str("app"), exc_text |-> None,
     stack_info |-> None, lineno |-> Num("42"), funcName |-> Str("run"),
     created |-> Num("1500000000.5"), msecs |-> Num("500"),
     relativeCreated |-> Num("12"), thread |-> Num("1"),
     threadName |-> Str("MainThread"), processName |-> Str("MainProcess"),
     process |-> Num("99")]

\* record.__dict__ of a record made with message m, arguments a, exception
\* info e and the extra attributes x.
Record(m, a, e, x) == x @@ [msg |-> m, args |-> a, exc_info |-> e] @@ BaseAttrs

NoArgs == Tuple(<<>>)
Lit(s) == <<"lit", s>>
Field(k) == <<"field", k>>

RecSubst ==
    Record(Text(<<Lit("hello "), Field("env")>>), NoArgs, None,
           [env |-> Str("staging")])

RecMapAttrs ==
    Record(Dict(("int:1" :> Str("one"))
                @@ [a |-> Num("1"), name |-> Str("inner"), msg |-> Str("m"),
                    levelname |-> Str("L"), lineno |-> Num("9"),
                    env |-> Str("staging"), exception |-> Str("mine"),
                    exc_info |-> Tuple(<<>>)]),
           NoArgs, None, EmptyDict)

ExcRecords ==
    { Record(Text(<<Lit("boom")>>), NoArgs, ExcInfo("ValueError", "bad", n),
             [exception |-> Str("user"), region |-> Obj("o1")])
        : n \in 0..MaxFrames }
    \cup
    { Record(Dict([a |-> Num("1"), exception |-> Str("mine")]), NoArgs,
             ExcInfo("KeyError", "k", n), EmptyDict) : n \in 1..MaxFrames }
    \cup
    { Record(Text(<<Lit("no exception")>>), NoArgs,
             ExcInfo("NoneType", "None", 0), EmptyDict) }

Records ==
    { Record(Text(<<Lit("hello")>>), NoArgs, None, EmptyDict),
      RecSubst,
      Record(Text(<<Field("env"), Field("missing")>>), NoArgs, None,
             [env |-> Str("staging"), region |-> Obj("o1")]),
      Record(Text(<<Lit("n="), <<"pos", "0">> >>), NoArgs, None, EmptyDict),
      Record(Text(<<(<<"rbrace">>), Field("missing")>>), NoArgs, None,
             EmptyDict),
      Record(Text(<<Lit("open "), <<"lbrace">> >>), NoArgs, None,
             [env |-> Str("staging")]),
      Record(Text(<<(<<"attr", "name", "foo">>)>>), NoArgs, None, EmptyDict),
      Record(Text(<<(<<"esc", "{">>), <<"pct">>, Lit(" done")>>),
             Tuple(<<Str("w")>>), None,
             [exception |-> Str("user"), when |-> Time("t0")]),
      Record(Dict([a |-> Num("1")]), NoArgs, None, EmptyDict),
      RecMapAttrs }
    \cup ExcRecords

\* The records of the concurrent callers.
ConcRecords ==
    { RecSubst, RecMapAttrs,
      Record(Text(<<Lit("boom")>>), NoArgs, ExcInfo("ValueError", "bad", 0),
             [exception |-> Str("user"), region |-> Obj("o1")]) }

\* What datetime.utcnow() may read.
Clock == {"2026-01-01T00:00:00.000000Z", "2026-01-01T00:00:01.000000Z"}

\* --------------------------------------------------------------- state

NoRet == <<"none">>

Init ==
    /\ config \in Configs
    /\ self = Construct(config)
    /\ heap = InitHeap(config)
    /\ pc = [t \in Threads |-> "idle"]
    /\ rec = [t \in Threads |-> EmptyDict]
    /\ fields = [t \in Threads |-> EmptyDict]
    /\ msg = [t \in Threads |-> None]
    /\ loglevel = [t \in Threads |-> None]
    /\ worker_guid = [t \in Threads |-> None]
    /\ logr = [t \in Threads |-> ""]
    /\ ret = [t \in Threads |-> NoRet]
    /\ completed = 0

\* format(record) is entered: the record's attributes are copied and the
\* message resolved.
Call(t, r) ==
    /\ pc[t] = "idle"
    /\ rec' = [rec EXCEPT ![t] = r]
    /\ fields' = [fields EXCEPT ![t] = ResolveFields(r)]
    /\ msg' = [msg EXCEPT ![t] = ResolveMsg(r)]
    /\ pc' = [pc EXCEPT ![t] = "resolved"]
    /\ UNCHANGED <<config, self, heap, loglevel, worker_guid, logr, ret,
                   completed>>

\* try: msg = msg.format(**fields); except (KeyError, IndexError): pass
Interpolate(t) ==
    /\ pc[t] = "resolved"
    /\ LET res == FormatMsg(msg[t], fields[t])
       IN  \/ /\ res[1] = "ok"
              /\ msg' = [msg EXCEPT ![t] = res[2]]
              /\ pc' = [pc EXCEPT ![t] = "interpolated"]
              /\ ret' = ret
           \/ /\ res[1] = "raise"
              /\ res[2] \in CaughtByInterpolation
              /\ msg' = msg
              /\ pc' = [pc EXCEPT ![t] = "interpolated"]
              /\ ret' = ret
           \/ /\ res[1] = "raise"
              /\ res[2] \notin CaughtByInterpolation
              /\ msg' = msg
              /\ pc' = [pc EXCEPT ![t] = "raised"]
              /\ ret' = [ret EXCEPT ![t] = res]
    /\ UNCHANGED <<config, self, heap, rec, fields, loglevel, worker_guid,
                   logr, completed>>

\* The exception info is rendered into fields['exception'].
Exception(t) ==
    /\ pc[t] = "interpolated"
    /\ fields' = [fields EXCEPT ![t] = ExcInfoStep(fields[t])]
    /\ pc' = [pc EXCEPT ![t] = "rendered"]
    /\ UNCHANGED <<config, self, heap, rec, msg, loglevel, worker_guid, logr,
                   ret, completed>>

\* loglevel and worker_guid are taken out and the unwanted tags dropped.
Strip(t) ==
    /\ pc[t] = "rendered"
    /\ loglevel' = [loglevel EXCEPT ![t] = Get(fields[t], "levelname", Str(""))]
    /\ worker_guid' = [worker_guid EXCEPT ![t] = Get(fields[t], "name", Str(""))]
    /\ fields' = [fields EXCEPT ![t] = StripFields(fields[t])]
    /\ pc' = [pc EXCEPT ![t] = "stripped"]
    /\ UNCHANGED <<config, self, heap, rec, msg, logr, ret, completed>>

\* logr = self.defaults.copy()
CopyDefaults(t) ==
    /\ pc[t] = "stripped"
    /\ LET a == CopyAddr(t, self.defaults)
       IN  /\ logr' = [logr EXCEPT ![t] = a]
           /\ heap' = [heap EXCEPT ![a] = Dict(CopyDict(heap[self.defaults][2]))]
    /\ pc' = [pc EXCEPT ![t] = "copied"]
    /\ UNCHANGED <<config, self, rec, fields, msg, loglevel, worker_guid, ret,
                   completed>>

\* logr.update({...}): the literal is built, _build_fields reading logr, and
\* then written into logr.
Assemble(t) ==
    /\ pc[t] = "copied"
    /\ \E ts \in Clock :
          heap' = [heap EXCEPT ![logr[t]] =
                     Dict(Update(heap[logr[t]][2],
                                 Reserved(msg[t], ts, self, loglevel[t],
                                          worker_guid[t],
                                          _build_fields(heap[logr[t]][2],
                                                      fields[t], heap))))]
    /\ pc' = [pc EXCEPT ![t] = "assembled"]
    /\ UNCHANGED <<config, self, rec, fields, msg, loglevel, worker_guid, logr,
                   ret, completed>>

\* return json.dumps(logr, default=self.json_default, cls=self.json_cls)
Dumps(t) ==
    /\ pc[t] = "assembled"
    /\ ret' = [ret EXCEPT ![t] = <<"doc", JsonOf(heap[logr[t]], heap)[2]>>]
    /\ pc' = [pc EXCEPT ![t] = "done"]
    /\ UNCHANGED <<config, self, heap, rec, fields, msg, loglevel, worker_guid,
                   logr, completed>>

\* The caller has the document, or the exception; the call's locals are gone.
Return(t) ==
    /\ pc[t] \in {"done", "raised"}
    /\ pc' = [pc EXCEPT ![t] = "idle"]
    /\ rec' = [rec EXCEPT ![t] = EmptyDict]
    /\ fields' = [fields EXCEPT ![t] = EmptyDict]
    /\ msg' = [msg EXCEPT ![t] = None]
    /\ loglevel' = [loglevel EXCEPT ![t] = None]
    /\ worker_guid' = [worker_guid EXCEPT ![t] = None]
    /\ logr' = [logr EXCEPT ![t] = ""]
    /\ ret' = [ret EXCEPT ![t] = NoRet]
    /\ heap' = [heap EXCEPT ![t] = None]
    /\ completed' = IF completed < MaxCalls THEN completed + 1 ELSE completed
    /\ UNCHANGED <<config, self>>

Step(t) ==
    \/ Interpolate(t)
    \/ Exception(t)
    \/ Strip(t)
    \/ CopyDefaults(t)
    \/ Assemble(t)
    \/ Dumps(t)
    \/ Return(t)

\* One caller, any record, call after call.
Next ==
    \/ \E r \in Records : Call(MainThread, r)
    \/ Step(MainThread)

Spec == Init /\ [][Next]_vars

\* Several callers whose calls interleave step by step.
NextConc ==
    \/ \E t \in Threads : \E r \in ConcRecords : Call(t, r)
    \/ \E t \in Threads : Step(t)

SpecConc == Init /\ [][NextConc]_vars

\* The document format(r) returns on a formatter just constructed from cfg,
\* the clock reading ts: the whole of format, on the heap of construction.
AloneDoc(cfg, r, ts) ==
    LET h0 == InitHeap(cfg)
        s0 == Construct(cfg)
        f0 == ResolveFields(r)
        res == FormatMsg(ResolveMsg(r), f0)
        m == IF res[1] = "ok" THEN res[2] ELSE ResolveMsg(r)
        f1 == ExcInfoStep(f0)
        d == CopyDict(h0[s0.defaults][2])
        doc == Update(d, Reserved(m, ts, s0, Get(f1, "levelname", Str("")),
                                  Get(f1, "name", Str("")),
                                  _build_fields(d, StripFields(f1), h0)))
    IN  JsonOf(Dict(doc), h0)[2]

\* -------------------------------------------------------------- claims

Done(t) == pc[t] = "done"
Doc(t) == ret[t][2]
DocFields(t) == Doc(t)["@fields"][2]
Active(t) == pc[t] /= "idle"
MappingMessage(t) == Active(t) /\ rec[t]["msg"][1] = "dict"
Absent == <<"absent">>

ReservedKeys ==
    {"@message", "@timestamp", "@source_host", "@host", "loglevel",
     "worker_guid", "logging_type", "@fields"}

Denylist ==
    {"message", "exc_text", "exc_info", "msg", "lineno", "filename",
     "funcName", "levelno", "module", "msecs", "pathname", "process",
     "processName", "relativeCreated", "thread", "threadName"}

\* The exception-info entry of the working field set of record r: the dict
\* message's, when it has one, and the record's otherwise.
ExcInfoOf(r) ==
    IF r["msg"][1] = "dict" /\ "exc_info" \in DOMAIN r["msg"][2]
    THEN r["msg"][2]["exc_info"]
    ELSE r["exc_info"]

C2_RecordWins ==
    \A t \in Threads :
        Done(t) =>
            \A k \in DOMAIN fields[t]
                     \cap (DOMAIN ConfigExtra(config)
                           \cup DOMAIN ConfigNested(config)) :
                /\ k \in DOMAIN DocFields(t)
                /\ DocFields(t)[k] = JsonOf(fields[t][k], heap)

\* A record field that collides with a key of extra and, with another value,
\* with a key of the @fields mapping in extra.
C2_Witness ==
    \E t \in Threads :
        /\ Done(t)
        /\ DOMAIN fields[t] \cap DOMAIN ConfigExtra(config) /= {}
        /\ \E k \in DOMAIN fields[t] \cap DOMAIN ConfigNested(config) :
              JsonOf(fields[t][k], heap)
                 /= JsonOf(ConfigNested(config)[k], InitHeap(config))

C4_EveryMappingKey ==
    \A t \in Threads :
        (Done(t) /\ MappingMessage(t)) =>
            /\ Doc(t)["@message"] = Text(<<>>)
            /\ \A k \in DOMAIN rec[t]["msg"][2] :
                  /\ JsonKey(k) \in DOMAIN DocFields(t)
                  /\ DocFields(t)[JsonKey(k)]
                        = JsonOf(rec[t]["msg"][2][k], heap)

\* The keys of a mapping message that format takes out of the field set or
\* overwrites: levelname and name, the denylist, and exception when there is
\* exception info.
NotKept(r) ==
    {"levelname", "name"} \cup Denylist
    \cup (IF Truthy(ExcInfoOf(r)) THEN {"exception"} ELSE {})

\* C4 as amended: for a mapping message format returns a document with an
\* empty @message, and @fields holds, with the mapping's value, every key of
\* the mapping other than levelname, name, the denylisted attributes, and
\* exception when the record carries exception info.
C4_KeptMappingKeys ==
    \A t \in Threads :
        /\ MappingMessage(t) => pc[t] /= "raised"
        /\ (Done(t) /\ MappingMessage(t)) =>
              /\ Doc(t)["@message"] = Text(<<>>)
              /\ \A k \in DOMAIN rec[t]["msg"][2] \ NotKept(rec[t]) :
                    /\ JsonKey(k) \in DOMAIN DocFields(t)
                    /\ DocFields(t)[JsonKey(k)]
                          = JsonOf(rec[t]["msg"][2][k], heap)

\* A document for a mapping message with keys that are kept, an int key among
\* them, and keys that are not.
C4_Witness ==
    \E t \in Threads :
        /\ Done(t)
        /\ MappingMessage(t)
        /\ DOMAIN rec[t]["msg"][2] \cap NotKept(rec[t]) /= {}
        /\ {"int:1", "a"} \subseteq DOMAIN rec[t]["msg"][2]

\* C5: format never raises out of the brace-style interpolation pass.
C5_InterpolationNeverRaises ==
    \A t \in Threads : pc[t] /= "raised"

\* The text references a name that kw lacks, or a positional field.
RefersToMissing(m, kw) ==
    \E i \in 1..Len(m[2]) :
        \/ m[2][i][1] \in {"field", "attr"} /\ m[2][i][2] \notin DOMAIN kw
        \/ m[2][i][1] = "pos"

\* C6: when the resolved message references a name the field set lacks, or a
\* positional field, format does not raise and the message is left as
\* resolved.
C6_MissLeavesMessage ==
    \A t \in Threads :
        (/\ pc[t] \in {"interpolated", "raised"}
         /\ ~MappingMessage(t)
         /\ RefersToMissing(GetMessage(rec[t]), fields[t])) =>
            /\ pc[t] = "interpolated"
            /\ msg[t] = GetMessage(rec[t])

\* C7 as claimed: no denylisted attribute is a key of @fields, whatever the
\* configuration.
C7_NoDenylistedKey ==
    \A t \in Threads : Done(t) => DOMAIN DocFields(t) \cap Denylist = {}

\* C7 as amended: a denylisted attribute is a key of @fields only when the
\* @fields mapping in extra holds it, and then with the configured value.
C7_DenylistedOnlyFromConfig ==
    \A t \in Threads :
        Done(t) =>
            \A k \in DOMAIN DocFields(t) \cap Denylist :
                /\ k \in DOMAIN ConfigNested(config)
                /\ DocFields(t)[k]
                      = JsonOf(ConfigNested(config)[k], InitHeap(config))

\* A document whose @fields holds a denylisted key, for a mapping message that
\* itself has denylisted keys.
C7_Witness ==
    \E t \in Threads :
        /\ Done(t)
        /\ MappingMessage(t)
        /\ DOMAIN rec[t]["msg"][2] \cap Denylist /= {}
        /\ DOMAIN DocFields(t) \cap Denylist /= {}

\* C8: after any sequence of calls the formatter's defaults, down to the
\* mutable values in them, its source host and its host are as construction
\* left them, and the @fields of each call is that of the same call on a
\* formatter just constructed.
C8_ConfigurationKept ==
    /\ self = Construct(config)
    /\ \A a \in SharedAddrs : heap[a] = InitHeap(config)[a]
    /\ \A t \in Threads :
          Done(t) =>
              DocFields(t)
                 = AloneDoc(config, rec[t],
                            Doc(t)["@timestamp"][2])["@fields"][2]

\* A later call completes on a formatter whose defaults hold a list and an
\* @fields mapping.
C8_Witness ==
    \E t \in Threads :
        /\ Done(t)
        /\ completed >= 1
        /\ {"nested", "tags"} \subseteq DOMAIN config.objs

\* C9: with the steps of several calls interleaved, no call writes what the
\* callers share, each works on a dict of its own, and each returns the
\* document it would return alone (the timestamp being the one it read).
C9_CallsIsolated ==
    /\ \A a \in SharedAddrs : heap[a] = InitHeap(config)[a]
    /\ \A t \in Threads :
          /\ logr[t] \in {"", t}
          /\ Done(t) =>
                Doc(t) = AloneDoc(config, rec[t], Doc(t)["@timestamp"][2])

\* One call is done while another, on another record, holds its copy of the
\* defaults.
C9_Witness ==
    \E t \in Threads : \E u \in Threads \ {t} :
        /\ Done(t)
        /\ pc[u] \in {"copied", "assembled"}
        /\ rec[u] /= rec[t]
        /\ DOMAIN ConfigExtra(config) /= {}

\* C10: with exception info, @fields has an exception key holding a non-empty
\* list of strings; without, the exception entry of the field set is what it
\* was before the step.
C10_ExceptionField ==
    \A t \in Threads :
        /\ (Done(t) /\ Truthy(ExcInfoOf(rec[t]))) =>
              /\ "exception" \in DOMAIN DocFields(t)
              /\ DocFields(t)["exception"][1] = "list"
              /\ Len(DocFields(t)["exception"][2]) > 0
              /\ \A i \in 1..Len(DocFields(t)["exception"][2]) :
                    DocFields(t)["exception"][2][i][1] \in StringTags
        /\ (/\ pc[t] \in {"rendered", "stripped", "copied", "assembled", "done"}
            /\ ~Truthy(ExcInfoOf(rec[t]))) =>
              Get(fields[t], "exception", Absent)
                 = (IF rec[t]["msg"][1] = "dict"
                    THEN Get(rec[t]["msg"][2], "exception",
                             Get(rec[t], "exception", Absent))
                    ELSE Get(rec[t], "exception", Absent))

\* A document for a record with exception info without a traceback, which
\* supplies an exception attribute of its own.
C10_Witness ==
    \E t \in Threads :
        /\ Done(t)
        /\ ExcInfoOf(rec[t])[1] = "exc"
        /\ ExcInfoOf(rec[t])[4] = 0
        /\ "exception" \in DOMAIN rec[t]

====
